---- MODULE Spec2Model ----
(***************************************************************************)
(* Model of the render orchestration of blur: the render queue             *)
(* (rendering.rs: Rendering), one render's pipeline (rendering.rs:         *)
(* render_video; helpers.rs: exec, exit, clean) and the progress scanner   *)
(* (helpers.rs: progress).                                                 *)
(*                                                                         *)
(* Four specifications share the variables:                                *)
(*   SpecQueue     queue_render / render_videos                            *)
(*   SpecRender    render_video -> exec -> exit | clean                    *)
(*   SpecProgress  progress over a diagnostic stream                       *)
(*   SpecProgressFair  the same, progress' own steps weakly fair            *)
(*   SpecBuild     build_ffmpeg_command over the settings                  *)
(* A specification leaves the variables of the other parts at their idle   *)
(* values.                                                                 *)
(***************************************************************************)
EXTENDS Integers, Sequences, FiniteSets, TLC

\* ------------------------------------------------------------------ bounds
NumRenders == 2
MaxQueued == 3
MaxRecords == 2
MaxFrame == 1

Renders == 1..NumRenders

VARIABLES
    \* Rendering (rendering.rs:64-67)
    queue,            \* Rendering.queue: Vec<Render>
    renders_queued,   \* Rendering.renders_queued
    \* render_videos' position (rendering.rs:85-118)
    rv_pc,            \* "idle" | "check" | "loop" | "panicked"
    rv_idx,           \* number of items the for loop has consumed
    processed,        \* the "Processing <file>" lines written so far (line 92)
    appended,         \* every render handed to queue_render, in call order
    pipeline_log,     \* pipeline steps taken, in order: <<render, step>>
    \* render_video / exec / exit / clean
    pc,               \* position of the one render_video call
    cur,              \* the render that call is for
    stderr_tty,       \* std::io::stderr().is_terminal()
    stdout_tty,       \* std::io::stdout().is_terminal()
    vspipe,           \* source process: [st, status, stdout, stderr]
    ffmpeg,           \* transcoder process: [st, status, stdin]
    exec_status,      \* the ExitStatus exec returned, "none" before
    exit_code,        \* the code the whole run ended with, "none" while running
    reported,         \* "Finished processing ..." was printed (line 153)
    dir_exists,       \* the script's parent directory exists
    dir_entries,      \* the entries of that directory
    ffindex,          \* <video file name>.ffindex exists next to the video
    ff_err,           \* the result of the sidecar's remove_file
    \* progress
    pg_pc,            \* "idle" | "read" | "returned" | "panicked"
    pending,          \* complete (delimited) records written and not yet read
    tail,             \* bytes written after the last delimiter: a record or NoTail
    closed,           \* the writer closed the stream
    consumed,         \* the records read_until has returned so far
    read_frames,      \* progress' local flag
    pb_len,           \* ProgressBar length
    pb_pos,           \* ProgressBar position
    pb_calls,         \* the calls made on the ProgressBar, in order
    \* build_ffmpeg_command
    bld_pc,           \* "idle" | "call" | "returned"
    bld_in,           \* the arguments of the call and what used_installer says
    bld_out           \* the Result the call returned, NoCmd before

queueVars == <<queue, renders_queued, rv_pc, rv_idx, processed, appended>>
renderVars == <<pc, cur, stderr_tty, stdout_tty, vspipe, ffmpeg, exec_status,
                exit_code, reported, dir_exists, dir_entries, ffindex, ff_err>>
progressVars == <<pg_pc, pending, tail, closed, consumed, read_frames,
                  pb_len, pb_pos, pb_calls>>
buildVars == <<bld_pc, bld_in, bld_out>>
vars == <<queueVars, pipeline_log, renderVars, progressVars, buildVars>>

\* ------------------------------------------------------------ render queue

\* Rendering { queue: vec![], renders_queued: false }
QueueIdle ==
    /\ queue = <<>>
    /\ renders_queued = FALSE
    /\ rv_pc = "idle"
    /\ rv_idx = 0
    /\ processed = <<>>
    /\ appended = <<>>

\* rendering.rs:328-336: the body is `return Ok(())`; the clip, the paths, the
\* settings and the progress bar are dropped unused, no process is spawned.
render_node(r, log) == [result |-> "Ok", log |-> log]

\* the flag is not raised
queue_render_forgets_flag(r) ==
    /\ rv_pc = "idle"
    /\ Len(appended) < MaxQueued
    /\ queue' = Append(queue, r)
    /\ appended' = Append(appended, r)
    /\ UNCHANGED <<renders_queued, rv_pc, rv_idx, processed, pipeline_log>>
    /\ UNCHANGED <<renderVars, progressVars, buildVars>>

\* rendering.rs:80-83
queue_render(r) ==
    /\ rv_pc = "idle"
    /\ Len(appended) < MaxQueued
    /\ queue' = Append(queue, r)
    /\ renders_queued' = TRUE
    /\ appended' = Append(appended, r)
    /\ UNCHANGED <<rv_pc, rv_idx, processed, pipeline_log>>
    /\ UNCHANGED <<renderVars, progressVars, buildVars>>

\* rendering.rs:85-90: the call, up to the test of renders_queued
render_videos_call ==
    /\ rv_pc = "idle"
    /\ rv_pc' = "check"
    /\ UNCHANGED <<queue, renders_queued, rv_idx, processed, appended, pipeline_log>>
    /\ UNCHANGED <<renderVars, progressVars, buildVars>>

\* rendering.rs:90: if self.renders_queued { for ... } else return
render_videos_check ==
    /\ rv_pc = "check"
    /\ IF renders_queued
         THEN rv_pc' = "loop" /\ rv_idx' = 0
         ELSE rv_pc' = "idle" /\ rv_idx' = rv_idx
    /\ UNCHANGED <<queue, renders_queued, processed, appended, pipeline_log>>
    /\ UNCHANGED <<renderVars, progressVars, buildVars>>

\* rendering.rs:91-114: one iteration of `for render in self.queue.iter()`
\* whose ffms2 Source call yields the clip
render_videos_iter ==
    /\ rv_pc = "loop"
    /\ rv_idx < Len(queue)
    /\ LET r == queue[rv_idx + 1]
           res == render_node(r, pipeline_log)
       IN /\ processed' = Append(processed, r)
          /\ pipeline_log' = res.log
          /\ IF res.result = "Ok"
               THEN rv_pc' = "loop" /\ rv_idx' = rv_idx + 1
               ELSE rv_pc' = "panicked" /\ rv_idx' = rv_idx
    /\ UNCHANGED <<queue, renders_queued, appended>>
    /\ UNCHANGED <<renderVars, progressVars, buildVars>>

\* rendering.rs:109-111: Source(...).get_node("clip").unwrap() on a video ffms2
\* cannot open: the run panics inside the loop
render_videos_source_fails ==
    /\ rv_pc = "loop"
    /\ rv_idx < Len(queue)
    /\ processed' = Append(processed, queue[rv_idx + 1])
    /\ rv_pc' = "panicked"
    /\ UNCHANGED <<queue, renders_queued, rv_idx, appended, pipeline_log>>
    /\ UNCHANGED <<renderVars, progressVars, buildVars>>

\* the pass ends without clearing the queue
render_videos_clear_keeps_queue ==
    /\ rv_pc = "loop"
    /\ rv_idx >= Len(queue)
    /\ renders_queued' = FALSE
    /\ rv_pc' = "idle"
    /\ rv_idx' = 0
    /\ UNCHANGED <<queue, processed, appended, pipeline_log>>
    /\ UNCHANGED <<renderVars, progressVars, buildVars>>

\* rendering.rs:115-116: the iterator is exhausted
render_videos_clear ==
    /\ rv_pc = "loop"
    /\ rv_idx >= Len(queue)
    /\ queue' = <<>>
    /\ renders_queued' = FALSE
    /\ rv_pc' = "idle"
    /\ rv_idx' = 0
    /\ UNCHANGED <<processed, appended, pipeline_log>>
    /\ UNCHANGED <<renderVars, progressVars, buildVars>>

\* ------------------------------------------- render_video, exec, exit, clean

Script == "script"
DirEntries == {Script, "other1", "other2"}
Statuses == {"success", "failure"}

NoProc == [st |-> "none", status |-> "none", stdout |-> "None", stderr |-> "None"]
NoFfmpeg == [st |-> "none", status |-> "none", stdin |-> "None"]

RenderIdle ==
    /\ pc = "idle"
    /\ cur = 1
    /\ stderr_tty = TRUE
    /\ stdout_tty = TRUE
    /\ vspipe = NoProc
    /\ ffmpeg = NoFfmpeg
    /\ exec_status = "none"
    /\ exit_code = "none"
    /\ reported = FALSE
    /\ dir_exists = FALSE
    /\ dir_entries = {}
    /\ ffindex = FALSE
    /\ ff_err = "none"

\* helpers.rs:52-55: Command::new(vspipe_exe).args(..).stdout(Stdio::piped()):
\* stdout is piped, stderr is left at spawn's default, inherited from the parent
vspipe_stdio == [stdout |-> "piped", stderr |-> "inherit"]

\* std::process::Child: a stream's handle is Some only when it was piped
ChildHandle(cfg) == IF cfg = "piped" THEN "Some" ELSE "None"

\* a failing source makes the outcome a failure
ExecResult_first_failure(vs_status, ff_status) ==
    IF vs_status = "failure" THEN vs_status ELSE ff_status

\* helpers.rs:68-69: the source's status is dropped, the transcoder's returned
ExecResult(vs_status, ff_status) == ff_status

Log(step) == pipeline_log' = Append(pipeline_log, <<cur, step>>)

envVars == <<cur, stderr_tty, stdout_tty>>
fsVars == <<dir_exists, dir_entries, ffindex, ff_err>>

\* rendering.rs:130-136: build_ffmpeg_command(..)? yields the two commands
render_video_build ==
    /\ pc = "start"
    /\ pc' = "spawn_vspipe"
    /\ UNCHANGED <<envVars, fsVars, vspipe, ffmpeg, exec_status, exit_code,
                   reported, pipeline_log>>
    /\ UNCHANGED <<queueVars, progressVars, buildVars>>

\* rendering.rs:136, 175-176: used_installer()? or current_exe()? fails and
\* render_video returns the error
render_video_build_err ==
    /\ pc = "start"
    /\ pc' = "returned_err"
    /\ UNCHANGED <<envVars, fsVars, vspipe, ffmpeg, exec_status, exit_code,
                   reported, pipeline_log>>
    /\ UNCHANGED <<queueVars, progressVars, buildVars>>

\* helpers.rs:52-56: spawn the source process
exec_spawn_vspipe ==
    /\ pc = "spawn_vspipe"
    /\ vspipe' = [st |-> "running", status |-> "none",
                  stdout |-> ChildHandle(vspipe_stdio.stdout),
                  stderr |-> ChildHandle(vspipe_stdio.stderr)]
    /\ pc' = "take_stdout"
    /\ Log("spawn_vspipe")
    /\ UNCHANGED <<envVars, fsVars, ffmpeg, exec_status, exit_code, reported>>
    /\ UNCHANGED <<queueVars, progressVars, buildVars>>

\* helpers.rs:56: .expect("Failed to start vspipe process")
exec_spawn_vspipe_fails ==
    /\ pc = "spawn_vspipe"
    /\ pc' = "panicked"
    /\ exit_code' = "panic"
    /\ UNCHANGED <<envVars, fsVars, vspipe, ffmpeg, exec_status, reported,
                   pipeline_log>>
    /\ UNCHANGED <<queueVars, progressVars, buildVars>>

\* helpers.rs:57: vspipe.stdout.take().expect("Failed to open vspipe stdout")
exec_take_stdout ==
    /\ pc = "take_stdout"
    /\ IF vspipe.stdout = "Some"
         THEN /\ vspipe' = [vspipe EXCEPT !.stdout = "taken"]
              /\ pc' = "spawn_ffmpeg"
              /\ Log("take_stdout")
              /\ UNCHANGED exit_code
         ELSE /\ pc' = "panicked"
              /\ exit_code' = "panic"
              /\ UNCHANGED <<vspipe, pipeline_log>>
    /\ UNCHANGED <<envVars, fsVars, ffmpeg, exec_status, reported>>
    /\ UNCHANGED <<queueVars, progressVars, buildVars>>

\* helpers.rs:58-62: spawn the transcoder on the source's stdout
exec_spawn_ffmpeg ==
    /\ pc = "spawn_ffmpeg"
    /\ ffmpeg' = [st |-> "running", status |-> "none", stdin |-> "vspipe_stdout"]
    /\ pc' = "check_tty"
    /\ Log("spawn_ffmpeg")
    /\ UNCHANGED <<envVars, fsVars, vspipe, exec_status, exit_code, reported>>
    /\ UNCHANGED <<queueVars, progressVars, buildVars>>

\* helpers.rs:62: .expect("Failed to start ffmpeg process")
exec_spawn_ffmpeg_fails ==
    /\ pc = "spawn_ffmpeg"
    /\ pc' = "panicked"
    /\ exit_code' = "panic"
    /\ UNCHANGED <<envVars, fsVars, vspipe, ffmpeg, exec_status, reported,
                   pipeline_log>>
    /\ UNCHANGED <<queueVars, progressVars, buildVars>>

\* helpers.rs:65: stderr is a terminal, progress is not called
exec_skip_progress ==
    /\ pc = "check_tty"
    /\ stderr_tty
    /\ pc' = "wait_vspipe"
    /\ UNCHANGED <<envVars, fsVars, vspipe, ffmpeg, exec_status, exit_code,
                   reported, pipeline_log>>
    /\ UNCHANGED <<queueVars, progressVars, buildVars>>

\* helpers.rs:65-66: progress(vspipe.stderr.take().unwrap(), pb), called on
\* exec's own thread: exec goes on to line 68 only when progress has returned
exec_call_progress ==
    /\ pc = "check_tty"
    /\ ~stderr_tty
    /\ IF vspipe.stderr = "Some"
         THEN /\ vspipe' = [vspipe EXCEPT !.stderr = "taken"]
              /\ pc' = "in_progress"
              /\ Log("drain")
              /\ UNCHANGED exit_code
         ELSE /\ pc' = "panicked"
              /\ exit_code' = "panic"
              /\ UNCHANGED <<vspipe, pipeline_log>>
    /\ UNCHANGED <<envVars, fsVars, ffmpeg, exec_status, reported>>
    /\ UNCHANGED <<queueVars, progressVars, buildVars>>

\* the source process is not waited for
exec_wait_vspipe_skipped ==
    /\ pc = "wait_vspipe"
    /\ pc' = "wait_ffmpeg"
    /\ UNCHANGED <<envVars, fsVars, vspipe, ffmpeg, exec_status, exit_code,
                   reported, pipeline_log>>
    /\ UNCHANGED <<queueVars, progressVars, buildVars>>

\* helpers.rs:68: vspipe.wait() blocks until the source process has exited
exec_wait_vspipe ==
    /\ pc = "wait_vspipe"
    /\ vspipe.st = "exited"
    /\ vspipe' = [vspipe EXCEPT !.st = "reaped"]
    /\ pc' = "wait_ffmpeg"
    /\ Log("wait_vspipe")
    /\ UNCHANGED <<envVars, fsVars, ffmpeg, exec_status, exit_code, reported>>
    /\ UNCHANGED <<queueVars, progressVars, buildVars>>

\* helpers.rs:69: ffmpeg.wait_with_output().unwrap().status
exec_wait_ffmpeg ==
    /\ pc = "wait_ffmpeg"
    /\ ffmpeg.st = "exited"
    /\ ffmpeg' = [ffmpeg EXCEPT !.st = "reaped"]
    /\ exec_status' = ExecResult(vspipe.status, ffmpeg.status)
    /\ pc' = "exec_returned"
    /\ Log("wait_ffmpeg")
    /\ UNCHANGED <<envVars, fsVars, vspipe, exit_code, reported>>
    /\ UNCHANGED <<queueVars, progressVars, buildVars>>

\* the source process ends on its own, with either status
vspipe_exits ==
    /\ vspipe.st = "running"
    /\ \E s \in Statuses : vspipe' = [vspipe EXCEPT !.st = "exited", !.status = s]
    /\ UNCHANGED <<pc, envVars, fsVars, ffmpeg, exec_status, exit_code, reported,
                   pipeline_log>>
    /\ UNCHANGED <<queueVars, progressVars, buildVars>>

\* the transcoder ends on its own, with either status
ffmpeg_exits ==
    /\ ffmpeg.st = "running"
    /\ \E s \in Statuses : ffmpeg' = [ffmpeg EXCEPT !.st = "exited", !.status = s]
    /\ UNCHANGED <<pc, envVars, fsVars, vspipe, exec_status, exit_code, reported,
                   pipeline_log>>
    /\ UNCHANGED <<queueVars, progressVars, buildVars>>

\* rendering.rs:149-158: exec's status is a success: report and go on to clean
render_video_success ==
    /\ pc = "exec_returned"
    /\ exec_status = "success"
    /\ reported' = TRUE
    /\ pc' = "clean"
    /\ UNCHANGED <<envVars, fsVars, vspipe, ffmpeg, exec_status, exit_code,
                   pipeline_log>>
    /\ UNCHANGED <<queueVars, progressVars, buildVars>>

\* rendering.rs:149-151: a non-success status: error!("Processing failed"),
\* then helpers::exit(exitcode::SOFTWARE)
render_video_failure ==
    /\ pc = "exec_returned"
    /\ exec_status # "success"
    /\ pc' = "exit"
    /\ UNCHANGED <<envVars, fsVars, vspipe, ffmpeg, exec_status, exit_code,
                   reported, pipeline_log>>
    /\ UNCHANGED <<queueVars, progressVars, buildVars>>

\* helpers.rs:72-86 exit(status_code), called with exitcode::SOFTWARE. With
\* stdout not a terminal it prompts and reads one byte of stdin:
\* read_exact(&mut [0]).unwrap() panics when stdin is at its end. Otherwise
\* std::process::exit(status_code) ends the run; it never returns.
exit ==
    /\ pc = "exit"
    /\ \E stdin_has_byte \in BOOLEAN :
         IF stdout_tty \/ stdin_has_byte
           THEN pc' = "exited" /\ exit_code' = "SOFTWARE"
           ELSE pc' = "panicked" /\ exit_code' = "panic"
    /\ UNCHANGED <<envVars, fsVars, vspipe, ffmpeg, exec_status, reported,
                   pipeline_log>>
    /\ UNCHANGED <<queueVars, progressVars, buildVars>>

\* the directory is removed only when it is empty
RemovesDir_when_empty(entries) == Cardinality(entries) < 1

\* helpers.rs:23: script_path.parent().read_dir().unwrap().count() <= 1
RemovesDir(entries) == Cardinality(entries) <= 1

\* helpers.rs:21-29 clean, the script / directory removal. read_dir's unwrap
\* panics when the directory is missing, remove_dir_all's and remove_file's
\* when the removal fails (remove_file also when the script is not there).
clean_remove ==
    /\ pc = "clean"
    /\ Log("clean")
    /\ \E removal_ok \in BOOLEAN :
         IF ~dir_exists
           THEN /\ pc' = "panicked" /\ exit_code' = "panic"
                /\ UNCHANGED <<dir_exists, dir_entries>>
         ELSE IF RemovesDir(dir_entries)
           THEN IF removal_ok
                  THEN /\ dir_exists' = FALSE /\ dir_entries' = {}
                       /\ pc' = "clean_ffindex" /\ UNCHANGED exit_code
                  ELSE /\ pc' = "panicked" /\ exit_code' = "panic"
                       /\ UNCHANGED <<dir_exists, dir_entries>>
         ELSE IF removal_ok /\ Script \in dir_entries
                  THEN /\ dir_entries' = dir_entries \ {Script}
                       /\ pc' = "clean_ffindex"
                       /\ UNCHANGED <<dir_exists, exit_code>>
                  ELSE /\ pc' = "panicked" /\ exit_code' = "panic"
                       /\ UNCHANGED <<dir_exists, dir_entries>>
    /\ UNCHANGED <<envVars, ffindex, ff_err, vspipe, ffmpeg, exec_status, reported>>
    /\ UNCHANGED <<queueVars, progressVars, buildVars>>

\* a missing sidecar is fatal too
Tolerated_only_ok(err) == err = "Ok"

\* helpers.rs:36-42: which results of the sidecar's remove_file clean survives
Tolerated(err) == err \in {"Ok", "NotFound"}

\* helpers.rs:30-43 clean, the index sidecar: remove_file(<video>.ffindex),
\* then the match on its result; rendering.rs:160 render_video returns Ok(())
clean_ffindex ==
    /\ pc = "clean_ffindex"
    /\ \E res \in {"Ok", "NotFound", "PermissionDenied"} :
         /\ IF ffindex THEN res \in {"Ok", "PermissionDenied"} ELSE res = "NotFound"
         /\ ff_err' = res
         /\ ffindex' = IF res = "Ok" THEN FALSE ELSE ffindex
         /\ IF Tolerated(res)
              THEN pc' = "returned_ok" /\ UNCHANGED exit_code
              ELSE pc' = "panicked" /\ exit_code' = "panic"
    /\ UNCHANGED <<envVars, dir_exists, dir_entries, vspipe, ffmpeg, exec_status,
                   reported, pipeline_log>>
    /\ UNCHANGED <<queueVars, progressVars, buildVars>>

\* ----------------------------------------------------------------- progress

\* u64::MAX, scaled to the model: a digit string denotes a number in
\* 0..U64Max + 1, and the largest does not fit a u64
U64Max == MaxFrame
DigitStrings == 0..(U64Max + 1)

\* The records of the diagnostic stream, by what frame_regex sees in them:
\* "junk" holds no marker, "partial" holds `Frame: <current>/` and no digits
\* after the slash, "frame" holds `Frame: <current>/<total>`
Junk == [kind |-> "junk", current |-> 0, total |-> 0]
Partial == [kind |-> "partial", current |-> 0, total |-> 0]
Frames == [kind : {"frame"}, current : DigitStrings, total : DigitStrings]
Records == {Junk, Partial} \cup Frames
NoTail == [kind |-> "none", current |-> 0, total |-> 0]

\* ProgressBar::new(100), rendering.rs:97
PbInitLen == 100

ProgressIdle ==
    /\ pg_pc = "idle"
    /\ pending = <<>>
    /\ tail = NoTail
    /\ closed = FALSE
    /\ consumed = <<>>
    /\ read_frames = FALSE
    /\ pb_len = PbInitLen
    /\ pb_pos = 0
    /\ pb_calls = <<>>

\* the total is optional in the pattern
is_match_loose(rec) == rec.kind \in {"frame", "partial"}

\* helpers.rs:90, 100: frame_regex.is_match(&string)
is_match(rec) == rec.kind = "frame"

\* helpers.rs:103, 106: str::parse::<u64>() of a capture
parse_u64(d) == IF d <= U64Max THEN [ok |-> TRUE, v |-> d] ELSE [ok |-> FALSE, v |-> 0]

\* the total is recorded on every matching record
SetsLength_always(flag) == TRUE

\* helpers.rs:102: the total is recorded only while read_frames is false
SetsLength(flag) == ~flag

\* the position never moves backward
NewPosition_monotonic(pos, current) == IF current >= pos THEN current ELSE pos

\* helpers.rs:106: progress.set_position(<current>), whatever the position was
NewPosition(pos, current) == current

\* helpers.rs:99-107: what progress does with one record read_until returned
Scan(rec) ==
    IF ~is_match(rec)
      THEN UNCHANGED <<pg_pc, read_frames, pb_len, pb_pos, pb_calls>>
    ELSE LET total == parse_u64(rec.total)
             current == parse_u64(rec.current)
             setlen == SetsLength(read_frames)
             calls1 == IF setlen /\ total.ok
                         THEN Append(pb_calls, <<"set_length", total.v>>)
                         ELSE pb_calls
         IN IF setlen /\ ~total.ok
              THEN /\ pg_pc' = "panicked"
                   /\ UNCHANGED <<read_frames, pb_len, pb_pos, pb_calls>>
              ELSE /\ pb_len' = IF setlen THEN total.v ELSE pb_len
                   /\ read_frames' = TRUE
                   /\ IF current.ok
                        THEN /\ pb_pos' = NewPosition(pb_pos, current.v)
                             /\ pb_calls' = Append(calls1,
                                    <<"set_position", NewPosition(pb_pos, current.v)>>)
                             /\ UNCHANGED pg_pc
                        ELSE /\ pg_pc' = "panicked"
                             /\ pb_calls' = calls1
                             /\ UNCHANGED pb_pos

Written == Len(consumed) + Len(pending) + (IF tail = NoTail THEN 0 ELSE 1)

\* the source process writes the bytes of a record, without its delimiter yet
write_bytes ==
    /\ ~closed
    /\ tail = NoTail
    /\ Written < MaxRecords
    /\ \E rec \in Records : tail' = rec
    /\ UNCHANGED <<pg_pc, pending, closed, consumed, read_frames, pb_len, pb_pos,
                   pb_calls>>
    /\ UNCHANGED <<queueVars, pipeline_log, renderVars, buildVars>>

\* the source process writes the delimiter, b'\r'
write_delimiter ==
    /\ ~closed
    /\ tail # NoTail
    /\ pending' = Append(pending, tail)
    /\ tail' = NoTail
    /\ UNCHANGED <<pg_pc, closed, consumed, read_frames, pb_len, pb_pos, pb_calls>>
    /\ UNCHANGED <<queueVars, pipeline_log, renderVars, buildVars>>

\* the source process closes its stderr (it exits)
close_stream ==
    /\ ~closed
    /\ closed' = TRUE
    /\ UNCHANGED <<pg_pc, pending, tail, consumed, read_frames, pb_len, pb_pos,
                   pb_calls>>
    /\ UNCHANGED <<queueVars, pipeline_log, renderVars, buildVars>>

\* helpers.rs:92-107: read_until(b'\r') returns a delimited record
progress_read ==
    /\ pg_pc = "read"
    /\ pending # <<>>
    /\ consumed' = Append(consumed, Head(pending))
    /\ pending' = Tail(pending)
    /\ Scan(Head(pending))
    /\ UNCHANGED <<tail, closed>>
    /\ UNCHANGED <<queueVars, pipeline_log, renderVars, buildVars>>

\* helpers.rs:92-107: at the end of the stream read_until returns the bytes
\* after the last delimiter
progress_read_tail ==
    /\ pg_pc = "read"
    /\ pending = <<>>
    /\ closed
    /\ tail # NoTail
    /\ consumed' = Append(consumed, tail)
    /\ tail' = NoTail
    /\ Scan(tail)
    /\ UNCHANGED <<pending, closed>>
    /\ UNCHANGED <<queueVars, pipeline_log, renderVars, buildVars>>

\* the scan stops as soon as no delimited record is left
progress_eof_no_record_left ==
    /\ pg_pc = "read"
    /\ pending = <<>>
    /\ pg_pc' = "returned"
    /\ UNCHANGED <<pending, tail, closed, consumed, read_frames, pb_len, pb_pos,
                   pb_calls>>
    /\ UNCHANGED <<queueVars, pipeline_log, renderVars, buildVars>>

\* helpers.rs:94-98: an empty read at the end of the stream: break
progress_eof ==
    /\ pg_pc = "read"
    /\ pending = <<>>
    /\ closed
    /\ tail = NoTail
    /\ pg_pc' = "returned"
    /\ UNCHANGED <<pending, tail, closed, consumed, read_frames, pb_len, pb_pos,
                   pb_calls>>
    /\ UNCHANGED <<queueVars, pipeline_log, renderVars, buildVars>>

\* ------------------------------------------------------ build_ffmpeg_command

\* A path is its directory and its file name; the file name is the sequence
\* of its dot-separated parts ("my.clip_blur.mp4" is <<"my", "clip_blur", "mp4">>).
RECURSIVE JoinDots(_)
JoinDots(parts) ==
    IF Len(parts) = 0 THEN ""
    ELSE IF Len(parts) = 1 THEN parts[1]
    ELSE parts[1] \o "." \o JoinDots(Tail(parts))

\* Path::display().to_string()
Display(path) == path.dir \o "/" \o JoinDots(path.parts)

\* Path::extension(): what follows the last dot of the file name, if any
HasExtension(parts) == Len(parts) > 1
Extension(parts) == parts[Len(parts)]

\* Path::file_stem(): the file name without its extension
FileStem(parts) ==
    IF HasExtension(parts) THEN SubSeq(parts, 1, Len(parts) - 1) ELSE parts

\* PathBuf::set_extension(ext): what follows the last dot of the file name is
\* replaced by ext; a name without a dot gets ext appended
SetExtension(parts, ext) == FileStem(parts) \o <<ext>>

\* helpers.rs:11-19 change_file_name(path, name): set_file_name(name), then
\* set_extension(path's extension) when path has one
change_file_name(path, name) ==
    [dir |-> path.dir,
     parts |-> IF HasExtension(path.parts)
                 THEN SetExtension(name, Extension(path.parts))
                 ELSE name]

\* the parts of the string a \o b, a and b given by their parts
ConcatParts(a, b) ==
    SubSeq(a, 1, Len(a) - 1) \o <<a[Len(a)] \o b[1]>> \o Tail(b)

\* f64 values of the time scales, by their Display form
Scales == {"0.5", "1", "2"}
\* format!("{}", 1.0 / x)
Reciprocal(x) == CASE x = "0.5" -> "2" [] x = "1" -> "1" [] x = "2" -> "0.5"

GpuTypes == {"nvidia", "NVIDIA", "amd", "Amd", "intel", "vaapi"}
\* str::to_lowercase
to_lowercase(t) ==
    CASE t = "NVIDIA" -> "nvidia" [] t = "Amd" -> "amd" [] OTHER -> t

\* the Config fields build_ffmpeg_command reads (rendering.rs:210-302)
AllSettings ==
    [ts_input : Scales, ts_output : Scales, adjust_audio_pitch : BOOLEAN,
     quality : {"20"}, custom_ffmpeg_filters : BOOLEAN,
     gpu : BOOLEAN, gpu_type : GpuTypes,
     detailed_filename : BOOLEAN, interp_enabled : BOOLEAN,
     blend_enabled : BOOLEAN,
     interp_fps : {"60"}, interp_program : {"svp"},
     blend_output_fps : {"30"}, blend_amount : {<<"1">>, <<"1", "5">>}]

OutputPaths ==
    {[dir |-> "videos", parts |-> <<"clip_blur", "mp4">>],
     [dir |-> "videos", parts |-> <<"my", "clip_blur", "mp4">>]}
ScriptPath == "videos/tmp/script.vpy"
VideoPath == [dir |-> "videos", parts |-> <<"clip", "mp4">>]

NoCmd == [ok |-> FALSE, ffmpeg_exe |-> "", ffmpeg_args |-> <<>>,
          vspipe_exe |-> "", vspipe_args |-> <<>>, output_filename |-> ""]

BuildIdle ==
    /\ bld_pc = "idle"
    /\ bld_in = [settings |-> CHOOSE st \in AllSettings : TRUE,
                 stdout |-> FALSE,
                 output_path |-> CHOOSE o \in OutputPaths : TRUE,
                 installer |-> "no"]
    /\ bld_out = NoCmd

\* the two filters run together, the comma between them forgotten
AudioFilters_no_comma(st) ==
    (IF st.ts_input # "1" THEN "asetrate=48000*" \o Reciprocal(st.ts_input) ELSE "")
    \o (IF st.ts_output = "1" THEN ""
        ELSE IF st.adjust_audio_pitch THEN "asetrate=48000*" \o st.ts_output
        ELSE "atempo=" \o st.ts_output)

\* rendering.rs:208-226: the audio filter chain
AudioFilters(st) ==
    LET first == IF st.ts_input # "1"
                   THEN "asetrate=48000*" \o Reciprocal(st.ts_input)
                   ELSE ""
        second == IF st.adjust_audio_pitch
                    THEN "asetrate=48000*" \o st.ts_output
                    ELSE "atempo=" \o st.ts_output
    IN IF st.ts_output # "1"
         THEN (IF first # "" THEN first \o "," ELSE first) \o second
         ELSE first

\* rendering.rs:228-233: -af <chain>, only for a chain that is not empty
AudioArgs(st) ==
    IF AudioFilters(st) # "" THEN <<"-af", AudioFilters(st)>> ELSE <<>>

\* rendering.rs:240-268: the encoder of a GPU vendor; none for another vendor
GpuArgs(st) ==
    LET vendor == to_lowercase(st.gpu_type)
    IN IF vendor = "nvidia"
         THEN <<"-c:v", "h264_nvenc", "-preset", "p7", "-qp", st.quality>>
       ELSE IF vendor = "amd"
         THEN <<"-c:v", "h264_amf", "-qp_i", st.quality, "-qp_b", st.quality,
                "-qp_p", st.quality, "-quality", "quality">>
       ELSE IF vendor = "intel"
         THEN <<"-c:v", "h264_qsv", "-global_quality", st.quality,
                "-preset", "veryslow">>
       ELSE <<>>

\* the override is not looked at
SkipsEncoder_never(st) == FALSE

\* rendering.rs:236-237: the override set, nothing is added
SkipsEncoder(st) == st.custom_ffmpeg_filters

\* rendering.rs:235-287: video format, audio format, extra
EncoderArgs(st, stdout) ==
    IF SkipsEncoder(st) THEN <<>>
    ELSE (IF st.gpu THEN GpuArgs(st)
          ELSE IF ~stdout
            THEN <<"-c:v", "libx264", "-preset", "superfast", "-crf", st.quality>>
          ELSE <<"-c:v", "rawvideo">>)
         \o <<"-c:a", "aac", "-b:a", "320k">>
         \o <<"-movflags", "+faststart">>

\* rendering.rs:290-292: the detailed-filename rewrite applies
Detailed(st) == st.detailed_filename /\ st.interp_enabled /\ st.blend_enabled

\* rendering.rs:296-304: format!("{}-{}fps-{}~{}fps-{}", stem, ...), by parts
DetailedName(output_path, st) ==
    ConcatParts(FileStem(output_path.parts),
        ConcatParts(<<"-" \o st.interp_fps \o "fps-" \o st.interp_program \o "~"
                        \o st.blend_output_fps \o "fps-">>,
                    st.blend_amount))

\* the streaming test comes first
OutputForm_stdout_first(st, stdout) ==
    IF stdout THEN "stream" ELSE IF Detailed(st) THEN "detailed" ELSE "plain"

\* rendering.rs:290-313: which form the output target takes
OutputForm(st, stdout) ==
    IF Detailed(st) THEN "detailed" ELSE IF stdout THEN "stream" ELSE "plain"

\* rendering.rs:290-313: the output target
OutFile(output_path, st, stdout) ==
    CASE OutputForm(st, stdout) = "detailed" ->
           Display(change_file_name(output_path, DetailedName(output_path, st)))
      [] OutputForm(st, stdout) = "stream" -> "-"
      [] OTHER -> Display(output_path)

\* the container format of the streaming form is left out
OutputArgs_no_format(output_path, st, stdout) ==
    <<OutFile(output_path, st, stdout)>>

\* rendering.rs:308-314: -f nut goes with the streaming form only
OutputArgs(output_path, st, stdout) ==
    (IF OutputForm(st, stdout) = "stream" THEN <<"-f", "nut">> ELSE <<>>)
    \o <<OutFile(output_path, st, stdout)>>

\* rendering.rs:163-327 build_ffmpeg_command
build_ffmpeg_command(script_path, video_path, output_path, st, stdout, installer) ==
    IF installer = "err" THEN NoCmd
    ELSE [ok |-> TRUE,
          ffmpeg_exe |-> IF installer = "yes"
                           THEN "<exe dir>/lib/ffmpeg/ffmpeg.exe" ELSE "ffmpeg",
          ffmpeg_args |->
              <<"-loglevel", "error", "-hide_banner", "-nostats", "-i", "-",
                "-i", Display(video_path), "-map", "0:v", "-map", "1:a?">>
              \o AudioArgs(st)
              \o EncoderArgs(st, stdout)
              \o OutputArgs(output_path, st, stdout),
          vspipe_exe |-> IF installer = "yes"
                           THEN "<exe dir>/lib/vapoursynth/VSPipe.exe" ELSE "vspipe",
          vspipe_args |-> <<script_path, "-", "-p", "-c", "y4m">>,
          output_filename |-> OutFile(output_path, st, stdout)]

\* rendering.rs:163-327: one call of build_ffmpeg_command
build ==
    /\ bld_pc = "call"
    /\ bld_out' = build_ffmpeg_command(ScriptPath, VideoPath, bld_in.output_path,
                                       bld_in.settings, bld_in.stdout,
                                       bld_in.installer)
    /\ bld_pc' = "returned"
    /\ UNCHANGED bld_in
    /\ UNCHANGED <<queueVars, pipeline_log, renderVars, progressVars>>

\* ------------------------------------------------------------ specifications

InitQueue ==
    /\ QueueIdle
    /\ pipeline_log = <<>>
    /\ RenderIdle
    /\ ProgressIdle
    /\ BuildIdle

NextQueue ==
    \/ \E r \in Renders : queue_render(r)
    \/ render_videos_call
    \/ render_videos_check
    \/ render_videos_iter
    \/ render_videos_source_fails
    \/ render_videos_clear

SpecQueue == InitQueue /\ [][NextQueue]_vars

\* render_video is entered for one render, in any environment: either stream
\* a terminal or not, any content of the script's directory, the sidecar
\* there or not
InitRender ==
    /\ QueueIdle
    /\ pipeline_log = <<>>
    /\ ProgressIdle
    /\ BuildIdle
    /\ pc = "start"
    /\ cur \in Renders
    /\ stderr_tty \in BOOLEAN
    /\ stdout_tty \in BOOLEAN
    /\ vspipe = NoProc
    /\ ffmpeg = NoFfmpeg
    /\ exec_status = "none"
    /\ exit_code = "none"
    /\ reported = FALSE
    /\ dir_exists \in BOOLEAN
    /\ dir_entries \in SUBSET DirEntries
    /\ (~dir_exists => dir_entries = {})
    /\ ffindex \in BOOLEAN
    /\ ff_err = "none"

NextRender ==
    \/ render_video_build
    \/ render_video_build_err
    \/ exec_spawn_vspipe
    \/ exec_spawn_vspipe_fails
    \/ exec_take_stdout
    \/ exec_spawn_ffmpeg
    \/ exec_spawn_ffmpeg_fails
    \/ exec_skip_progress
    \/ exec_call_progress
    \/ exec_wait_vspipe
    \/ exec_wait_ffmpeg
    \/ vspipe_exits
    \/ ffmpeg_exits
    \/ render_video_success
    \/ render_video_failure
    \/ exit
    \/ clean_remove
    \/ clean_ffindex

SpecRender == InitRender /\ [][NextRender]_vars

\* progress is entered on an open, still empty stream with a fresh bar
InitProgress ==
    /\ QueueIdle
    /\ pipeline_log = <<>>
    /\ RenderIdle
    /\ BuildIdle
    /\ pg_pc = "read"
    /\ pending = <<>>
    /\ tail = NoTail
    /\ closed = FALSE
    /\ consumed = <<>>
    /\ read_frames = FALSE
    /\ pb_len = PbInitLen
    /\ pb_pos = 0
    /\ pb_calls = <<>>

NextProgress ==
    \/ write_bytes
    \/ write_delimiter
    \/ close_stream
    \/ progress_read
    \/ progress_read_tail
    \/ progress_eof

SpecProgress == InitProgress /\ [][NextProgress]_vars

\* progress runs on: a read that can return does return (read_until blocks
\* only while the stream is open and holds no delimiter). The writer owes
\* nothing: it may stop writing and never close.
SpecProgressFair ==
    /\ InitProgress
    /\ [][NextProgress]_vars
    /\ WF_vars(progress_read)
    /\ WF_vars(progress_read_tail)
    /\ WF_vars(progress_eof)

\* build_ffmpeg_command is called with any settings, either output mode,
\* either output path, and any answer of used_installer
InitBuild ==
    /\ QueueIdle
    /\ pipeline_log = <<>>
    /\ RenderIdle
    /\ ProgressIdle
    /\ bld_pc = "call"
    /\ bld_in \in [settings : AllSettings, stdout : BOOLEAN,
                   output_path : OutputPaths, installer : {"no", "yes", "err"}]
    /\ bld_out = NoCmd

NextBuild == build

SpecBuild == InitBuild /\ [][NextBuild]_vars

\* ------------------------------------------------------------------- claims

InLog(r, step) == \E i \in 1..Len(pipeline_log) : pipeline_log[i] = <<r, step>>
BothSpawned == vspipe.st # "none" /\ ffmpeg.st # "none"

\* C1: whenever exec has returned, the status it returned is the transcoder's
\* exit status, whatever the source process's exit status is.
C1_ExecReturnsTranscoderStatus ==
    exec_status # "none" =>
        /\ BothSpawned
        /\ vspipe.status \in Statuses
        /\ exec_status = ffmpeg.status

\* exec returned success although the source process failed
C1_Witness ==
    /\ exec_status = "success"
    /\ vspipe.status = "failure"
    /\ ffmpeg.status = "success"

\* C2: once both processes are spawned, exec does not abort before it has
\* waited for them and returned, with an interactive stderr or not.
C2_ExecNeverAbortsAfterSpawn ==
    ~(BothSpawned /\ exec_status = "none" /\ pc = "panicked")

\* C3: with a non-interactive stderr, once exec is past the terminal test the
\* Progress Extractor holds the source's diagnostic stream and exec itself is
\* waiting for the processes: it is neither inside the drain nor aborted.
C3_DrainConcurrentWithWait ==
    (~stderr_tty /\ BothSpawned /\ pc # "check_tty" /\ exec_status = "none") =>
        /\ vspipe.stderr = "taken"
        /\ pc \in {"wait_vspipe", "wait_ffmpeg"}

\* C4: every render whose iteration of render_videos has completed has had its
\* whole pipeline run: the processes spawned, both waited for, the temp files
\* cleaned, in that order.
C4_FullPipelinePerRender ==
    rv_pc # "panicked" =>
        \A i \in 1..Len(processed) :
            \E a, b, c \in 1..Len(pipeline_log) :
                /\ a < b /\ b < c
                /\ pipeline_log[a] = <<processed[i], "spawn_vspipe">>
                /\ pipeline_log[b] = <<processed[i], "wait_ffmpeg">>
                /\ pipeline_log[c] = <<processed[i], "clean">>

\* C5: the renders processed so far, followed by the renders still to process,
\* are the renders appended, in the order they were appended: each is
\* processed exactly once and in order, none is processed again by a later
\* pass; and when every appended render has been processed and the pass is
\* over, the queue is empty and renders_queued is false.
C5_EachQueuedRenderOnce ==
    /\ rv_pc \in {"idle", "check"} => appended = processed \o queue
    /\ rv_pc = "loop" =>
           appended = processed \o SubSeq(queue, rv_idx + 1, Len(queue))
    /\ (rv_pc = "idle" /\ processed = appended) =>
           (queue = <<>> /\ ~renders_queued)

\* a second pass is processing a render appended after the first pass, which
\* processed two
C5_Witness ==
    /\ rv_pc = "loop"
    /\ Len(queue) = 1
    /\ rv_idx = 1
    /\ Len(processed) = 3

\* C6: clean runs only after exec returned a success; after a non-success
\* status the render is not reported finished, clean is not run, and the run
\* ends with exitcode::SOFTWARE.
C6_CleanOnlyAfterSuccess ==
    /\ InLog(cur, "clean") => exec_status = "success"
    /\ exec_status = "failure" =>
           /\ ~reported
           /\ ~InLog(cur, "clean")
           /\ pc \in {"exec_returned", "exit", "exited", "panicked"}
           /\ exit_code \in {"none", "SOFTWARE"}

Matching == SelectSeq(consumed, is_match)
LengthCalls == SelectSeq(pb_calls, LAMBDA c : c[1] = "set_length")
PositionCalls == SelectSeq(pb_calls, LAMBDA c : c[1] = "set_position")

\* C7: the total is not set before a matching record has been scanned; it is
\* set once, to the total of the first matching record, and stays that.
C7_TotalSetOnceFromFirstMatch ==
    /\ Len(LengthCalls) <= 1
    /\ Len(LengthCalls) = 0 => pb_len = PbInitLen
    /\ Len(LengthCalls) = 1 =>
           /\ Matching # <<>>
           /\ LengthCalls[1][2] = Matching[1].total
           /\ pb_len = Matching[1].total
           /\ read_frames
    /\ (Matching # <<>> /\ pg_pc # "panicked") => Len(LengthCalls) = 1

\* two matching records with different totals were scanned and the total is
\* the first one's
C7_Witness ==
    /\ Len(consumed) = 2
    /\ is_match(consumed[1]) /\ is_match(consumed[2])
    /\ consumed[1].total # consumed[2].total
    /\ pg_pc = "read"
    /\ pb_len = consumed[1].total
    /\ Len(PositionCalls) = 2

\* C8 as claimed: each position set is at least the position set before it.
C8_PositionsNonDecreasing ==
    \A i, j \in 1..Len(PositionCalls) :
        i < j => PositionCalls[i][2] <= PositionCalls[j][2]

\* the records whose scan ran to its end (a panic stops the last one's)
Scanned ==
    IF pg_pc = "panicked" THEN SubSeq(consumed, 1, Len(consumed) - 1) ELSE consumed

\* C8 as amended: the positions set are, in order, the `current` values of the
\* matching records scanned, and the bar's position is the last of them.
C8_PositionsFollowRecords ==
    LET m == SelectSeq(Scanned, is_match)
    IN /\ Len(PositionCalls) = Len(m)
       /\ \A i \in 1..Len(m) : PositionCalls[i][2] = m[i].current
       /\ pb_pos = IF m = <<>> THEN 0 ELSE m[Len(m)].current

\* a later record reported a smaller current and the position moved back
C8_Witness ==
    /\ Len(PositionCalls) = 2
    /\ PositionCalls[2][2] < PositionCalls[1][2]
    /\ pb_pos = PositionCalls[2][2]

\* C9: when clean's removal succeeds, a directory of at most one entry is gone
\* as a whole; otherwise the script alone is gone, the directory and its other
\* entries stay; either way the script no longer exists.
C9_CleanRemoval ==
    [][(pc = "clean" /\ pc' = "clean_ffindex") =>
          /\ IF Cardinality(dir_entries) <= 1
               THEN ~dir_exists' /\ dir_entries' = {}
               ELSE /\ dir_exists'
                    /\ Script \in dir_entries
                    /\ dir_entries' = dir_entries \ {Script}
          /\ Script \notin dir_entries']_vars

\* clean removed the script alone from a directory that held two other entries
C9_Witness ==
    /\ pc = "clean_ffindex"
    /\ dir_exists
    /\ dir_entries = DirEntries \ {Script}

\* C10: after the removal clean deletes the sidecar: an absent sidecar lets
\* clean complete, a present one is deleted, and a failure other than
\* not-found is a panic.
C10_SidecarRemoval ==
    /\ ff_err # "none" => InLog(cur, "clean")
    /\ ff_err = "NotFound" => (pc = "returned_ok" /\ ~ffindex)
    /\ ff_err = "Ok" => (pc = "returned_ok" /\ ~ffindex)
    /\ ff_err = "PermissionDenied" =>
           (pc = "panicked" /\ exit_code = "panic" /\ ffindex)
    /\ pc = "returned_ok" => (ff_err \in {"Ok", "NotFound"} /\ ~ffindex)

\* clean completed although the sidecar was not there
C10_Witness ==
    /\ pc = "returned_ok"
    /\ ff_err = "NotFound"

Built == bld_pc = "returned" /\ bld_out.ok
Args == bld_out.ffmpeg_args
Has(flag) == \E i \in 1..Len(Args) : Args[i] = flag
Count(flag) == Cardinality({i \in 1..Len(Args) : Args[i] = flag})
EndsWith(suffix) ==
    /\ Len(Args) >= Len(suffix)
    /\ SubSeq(Args, Len(Args) - Len(suffix) + 1, Len(Args)) = suffix
AllThree ==
    /\ bld_in.settings.detailed_filename
    /\ bld_in.settings.interp_enabled
    /\ bld_in.settings.blend_enabled

\* C11: the output target takes exactly one of three forms: the detailed
\* rewrite when detailed_filename, interpolation and blending are all on; else,
\* with stdout, `-f nut` and `-`; else the plain output path. It is the last
\* transcoder argument and the returned output_filename.
C11_OutputTargetPriority ==
    Built =>
        LET last == Args[Len(Args)]
            plain == Display(bld_in.output_path)
            rewrite == Display(change_file_name(bld_in.output_path,
                           DetailedName(bld_in.output_path, bld_in.settings)))
        IN /\ bld_out.output_filename = last
           /\ rewrite \notin {plain, "-"}
           /\ IF AllThree
                THEN last = rewrite /\ ~Has("-f")
              ELSE IF bld_in.stdout
                THEN EndsWith(<<"-f", "nut", "-">>) /\ Count("-f") = 1
              ELSE last = plain /\ ~Has("-f")

\* a call with stdout and the detailed rewrite both asked for
C11_Witness ==
    /\ Built
    /\ AllThree
    /\ bld_in.stdout
    /\ bld_out.output_filename # "-"

StdoutNoGpu ==
    /\ Built
    /\ bld_in.stdout
    /\ ~bld_in.settings.gpu
    /\ ~bld_in.settings.custom_ffmpeg_filters

RawVideo ==
    /\ Count("-c:v") = 1
    /\ \E i \in 1..(Len(Args) - 1) : Args[i] = "-c:v" /\ Args[i + 1] = "rawvideo"

\* C12 as claimed: with stdout, no GPU and no override, whatever the other
\* settings, the video flags are `-c:v rawvideo`, `-f nut` is appended and the
\* output name is `-`.
C12_StdoutNoGpuStreams ==
    StdoutNoGpu =>
        /\ RawVideo
        /\ EndsWith(<<"-f", "nut", "-">>)
        /\ bld_out.output_filename = "-"

\* C12 as amended: the video flags are `-c:v rawvideo` in every such call;
\* `-f nut` is appended and the output name is `-` unless detailed_filename,
\* interpolation and blending are all on.
C12_StdoutNoGpuStreamsUnlessDetailed ==
    StdoutNoGpu =>
        /\ RawVideo
        /\ ~AllThree =>
               /\ EndsWith(<<"-f", "nut", "-">>)
               /\ bld_out.output_filename = "-"

\* a streaming call without GPU, without the rewrite
C12_Witness ==
    /\ StdoutNoGpu
    /\ ~AllThree
    /\ bld_out.output_filename = "-"

\* C13: `-af` is among the transcoder arguments exactly when a time scale is
\* not 1.0; it is there once, followed by the input-scale filter (if any) and
\* the output-scale filter (if any), joined by a comma.
C13_AudioFilterFlag ==
    Built =>
        LET st == bld_in.settings
            inF == IF st.ts_input = "1" THEN <<>>
                   ELSE <<"asetrate=48000*" \o Reciprocal(st.ts_input)>>
            outF == IF st.ts_output = "1" THEN <<>>
                    ELSE IF st.adjust_audio_pitch
                      THEN <<"asetrate=48000*" \o st.ts_output>>
                    ELSE <<"atempo=" \o st.ts_output>>
            chain == inF \o outF
            value == IF Len(chain) = 2 THEN chain[1] \o "," \o chain[2]
                     ELSE IF Len(chain) = 1 THEN chain[1] ELSE ""
        IN IF st.ts_input = "1" /\ st.ts_output = "1"
             THEN ~Has("-af")
             ELSE /\ Count("-af") = 1
                  /\ value # ""
                  /\ \E i \in 1..(Len(Args) - 1) :
                         Args[i] = "-af" /\ Args[i + 1] = value

\* both time scales differ from 1.0 and the chain holds both filters
C13_Witness ==
    /\ Built
    /\ bld_in.settings.ts_input = "0.5"
    /\ bld_in.settings.ts_output = "2"
    /\ ~bld_in.settings.adjust_audio_pitch
    /\ Has("asetrate=48000*2,atempo=2")

EncoderFlags ==
    {"-c:v", "-qp", "-qp_i", "-qp_b", "-qp_p", "-global_quality", "-crf", "-preset"}
At(i, seq) == i + Len(seq) - 1 <= Len(Args) /\ SubSeq(Args, i, i + Len(seq) - 1) = seq

\* C14: with a custom filter override no video-encoder flag is among the
\* transcoder arguments, whatever gpu, gpu_type and stdout are; without an
\* override, and with GPU off or a vendor the code knows, there is exactly one
\* `-c:v`, later `-c:a aac -b:a 320k` and after that `-movflags +faststart`.
C14_EncoderFlags ==
    Built =>
        LET st == bld_in.settings
        IN /\ st.custom_ffmpeg_filters => \A f \in EncoderFlags : ~Has(f)
           /\ (~st.custom_ffmpeg_filters /\
               (~st.gpu \/ st.gpu_type \in {"nvidia", "NVIDIA", "amd", "Amd", "intel"})) =>
                  /\ Count("-c:v") = 1
                  /\ \E i \in 1..Len(Args) :
                         /\ Args[i] = "-c:v"
                         /\ \E j \in (i + 1)..Len(Args) :
                                /\ At(j, <<"-c:a", "aac", "-b:a", "320k">>)
                                /\ \E k \in (j + 4)..Len(Args) :
                                       At(k, <<"-movflags", "+faststart">>)

\* an override together with GPU encoding asked for
C14_Witness ==
    /\ Built
    /\ bld_in.settings.custom_ffmpeg_filters
    /\ bld_in.settings.gpu
    /\ bld_in.settings.gpu_type = "NVIDIA"
    /\ bld_in.stdout

ExecSteps ==
    IF stderr_tty
      THEN <<"spawn_vspipe", "take_stdout", "spawn_ffmpeg",
             "wait_vspipe", "wait_ffmpeg">>
      ELSE <<"spawn_vspipe", "take_stdout", "spawn_ffmpeg", "drain",
             "wait_vspipe", "wait_ffmpeg">>
ExecLog == SelectSeq(pipeline_log, LAMBDA e : e[2] # "clean")

\* C15: the steps exec has taken are, in order, a prefix of: spawn the source,
\* take its stdout, spawn the transcoder, (stderr not a terminal) drain, wait
\* for the source, wait for the transcoder; and a spawned transcoder has the
\* source's taken stdout as its stdin.
C15_ExecStepOrder ==
    /\ Len(ExecLog) <= Len(ExecSteps)
    /\ \A i \in 1..Len(ExecLog) : ExecLog[i] = <<cur, ExecSteps[i]>>
    /\ ffmpeg.st # "none" =>
           (vspipe.stdout = "taken" /\ ffmpeg.stdin = "vspipe_stdout")
    /\ exec_status # "none" => Len(ExecLog) = Len(ExecSteps)

\* exec ran through all its steps and returned
C15_Witness ==
    /\ exec_status # "none"
    /\ Len(ExecLog) = 5
    /\ ExecLog[4] = <<cur, "wait_vspipe">>
    /\ ExecLog[5] = <<cur, "wait_ffmpeg">>

ReadsRecord == Len(consumed') = Len(consumed) + 1
RecordRead == consumed'[Len(consumed')]
SetsPositionTo(n) ==
    /\ pb_pos' = n
    /\ Len(pb_calls') > Len(pb_calls)
    /\ pb_calls'[Len(pb_calls')] = <<"set_position", n>>
    /\ pg_pc' = "read"
Ignored ==
    /\ pb_len' = pb_len
    /\ pb_pos' = pb_pos
    /\ read_frames' = read_frames
    /\ pb_calls' = pb_calls
    /\ pg_pc' = "read"

ScanEnded == pg_pc \in {"returned", "panicked"}
AtStreamEnd == closed /\ pending = <<>> /\ tail = NoTail

C18_FlagIffQueueNonEmpty ==
    /\ [](rv_pc # "panicked" => (renders_queued <=> queue # <<>>))
    /\ [][(rv_pc = "check" /\ queue = <<>>) =>
             /\ rv_pc' = "idle"
             /\ UNCHANGED <<queue, renders_queued, rv_idx, processed, appended,
                            pipeline_log>>]_vars

\* render_videos was called on the queue a completed pass left empty
C18_Witness ==
    /\ rv_pc = "check"
    /\ queue = <<>>
    /\ ~renders_queued
    /\ processed # <<>>

ExecRunning ==
    pc \in {"spawn_vspipe", "take_stdout", "spawn_ffmpeg", "check_tty",
            "in_progress", "wait_vspipe", "wait_ffmpeg"}

\* C19: once exec has ended, by returning or by aborting, every child process
\* it spawned has been waited for.
C19_NoUnwaitedChildAtExecEnd ==
    (pc # "start" /\ ~ExecRunning) =>
        /\ vspipe.st \in {"none", "reaped"}
        /\ ffmpeg.st \in {"none", "reaped"}

====
